---- MODULE Spec2Model ----
(***************************************************************************)
(* Items REST API (arman-ali-khan/android-api).                            *)
(*                                                                         *)
(* Two builds of the same server exist: src/unnamed/part_000 talks to the  *)
(* database through a mysql2 connection pool ("sql"), src/src/server.js    *)
(* through a supabase-js client ("hosted").  A process is one of the two;  *)
(* `variant` says which.  Both builds carry a textually identical health   *)
(* monitor (checkConnection, a 100 s interval timer and an eager call).    *)
(*                                                                         *)
(* Every route handler awaits exactly one database call and then shapes    *)
(* the response without touching shared state, so a handler is one atomic  *)
(* step.  A probe is two steps: it is started (eagerly or by the timer)    *)
(* and later its query settles; everything checkConnection does with       *)
(* isConnected / connectionAttempts happens after the await, in one step.  *)
(***************************************************************************)
EXTENDS Integers, FiniteSets, Sequences, TLC

VARIABLES
    variant,             \* "sql" (part_000) or "hosted" (server.js)
    dbUp,                \* environment: does a database call succeed now
    rows,                \* the table: id -> row
    nextId,              \* the table's auto-increment / serial counter
    isConnected,         \* let isConnected
    connectionAttempts,  \* let connectionAttempts
    inflight,            \* checkConnection calls suspended at their await
    pc,                  \* "running" or "exited"
    exitCode,            \* argument of process.exit, 0 while running
    emitted,             \* status banner printed by the last step
    settled,             \* outcome of the probe that settled in the last step
    req,                 \* the HTTP request served by the last step
    res,                 \* the response sent for it
    lastProbe,           \* history: outcome of the last settled probe
    failuresSince,       \* history: probe failures since the last success
    posted,              \* history: id -> fields echoed by POST, row alive
    deleted              \* history: ids whose row a DELETE removed

vars == <<variant, dbUp, rows, nextId, isConnected, connectionAttempts,
          inflight, pc, exitCode, emitted, settled, req, res, lastProbe,
          failuresSince, posted, deleted>>

monitorVars == <<isConnected, connectionAttempts, inflight, pc, exitCode,
                 lastProbe, failuresSince>>
tableVars == <<rows, nextId, posted, deleted>>

----------------------------------------------------------------------------
(* Bounds *)

MaxId == 2          \* rows ever inserted
MaxInFlight == 2    \* probes suspended at the same time

(* Program constant *)
MAX_RETRY_ATTEMPTS == 5

----------------------------------------------------------------------------
(* Values *)

Variants == {"sql", "hosted"}

Null == "NULL"

\* request bodies of POST /api/items: five fields, pairwise different
CreateBodies ==
    { [location |-> "L1", contacts |-> "C1", image |-> "I1",
       call_logs |-> "CL1", sms |-> "S1"] }

\* request bodies of PUT /api/items/:id
UpdateBodies ==
    { [name |-> "N1", description |-> "D1"],
      [name |-> "N2", description |-> "D2"] }

\* req.params.id is the text of the path segment
PathIds == { ToString(i) : i \in 1..MaxId }

\* the id column is numeric: the database compares the text with the number
ColumnId(s) == CHOOSE i \in 1..MaxId : ToString(i) = s

FiveFields(r) ==
    [location |-> r.location, contacts |-> r.contacts, image |-> r.image,
     call_logs |-> r.call_logs, sms |-> r.sms]

\* faulty variant: the bound values of location and contacts in the wrong order
NewRowSwapped(id, b) ==
    [id |-> id, location |-> b.contacts, contacts |-> b.location,
     image |-> b.image, call_logs |-> b.call_logs, sms |-> b.sms,
     name |-> Null, description |-> Null]

\* the row an INSERT of the five columns creates: name, description unset
NewRow(id, b) ==
    [id |-> id, location |-> b.location, contacts |-> b.contacts,
     image |-> b.image, call_logs |-> b.call_logs, sms |-> b.sms,
     name |-> Null, description |-> Null]

\* UPDATE ... SET name, description WHERE id
UpdatedRow(r, b) == [r EXCEPT !.name = b.name, !.description = b.description]

Insert(t, id, b) == [i \in DOMAIN t \cup {id} |->
                        IF i = id THEN NewRow(id, b) ELSE t[i]]
\* faulty variant: UPDATE without its WHERE clause
UpdateEveryRow(t, id, b) == [i \in DOMAIN t |-> UpdatedRow(t[i], b)]
Update(t, id, b) == [t EXCEPT ![id] = UpdatedRow(t[id], b)]
Remove(t, id) == [i \in DOMAIN t \ {id} |-> t[i]]

----------------------------------------------------------------------------
(* Responses *)

Response(status, shape, body) ==
    [status |-> status, shape |-> shape, body |-> body]

NoBody == [empty |-> TRUE]
NotFound == Response(404, "error", [error |-> "Item not found"])
ServerError == Response(500, "error", [error |-> "Internal server error"])
StatusOk ==
    Response(200, "status",
             [status |-> "connected",
              message |-> "Database connection is active"])
StatusDown ==
    Response(500, "status",
             [status |-> "disconnected",
              message |-> "Database connection error",
              error |-> "db error"])

\* what a handler does: the response and the table it leaves
Outcome(r, t, n) == [res |-> r, rows |-> t, nextId |-> n]

----------------------------------------------------------------------------
(* Route handlers of the SQL-pool build (src/unnamed/part_000).            *)
(* pool.query rejects when the database cannot be reached; the handler's   *)
(* catch turns that into the generic 500.                                  *)

SqlStatus(t, n, up) ==
    IF ~up THEN Outcome(StatusDown, t, n) ELSE Outcome(StatusOk, t, n)

SqlListItems(t, n, up) ==
    IF ~up THEN Outcome(ServerError, t, n)
    ELSE Outcome(Response(200, "list", { t[i] : i \in DOMAIN t }), t, n)

SqlCreateItem(t, n, up, b) ==
    IF ~up THEN Outcome(ServerError, t, n)
    ELSE Outcome(Response(201, "item",
                    [id |-> n, location |-> b.location,
                     contacts |-> b.contacts, image |-> b.image,
                     call_logs |-> b.call_logs, sms |-> b.sms]),
                 Insert(t, n, b), n + 1)

SqlGetItem(t, n, up, s) ==
    IF ~up THEN Outcome(ServerError, t, n)
    ELSE LET found == { t[i] : i \in DOMAIN t \cap {ColumnId(s)} }
         IN  IF Cardinality(found) = 0 THEN Outcome(NotFound, t, n)
             ELSE Outcome(Response(200, "item", CHOOSE r \in found : TRUE),
                          t, n)

SqlUpdateItem(t, n, up, s, b) ==
    IF ~up THEN Outcome(ServerError, t, n)
    ELSE LET affectedRows == Cardinality(DOMAIN t \cap {ColumnId(s)})
         IN  IF affectedRows = 0 THEN Outcome(NotFound, t, n)
             ELSE Outcome(Response(200, "item",
                             [id |-> s, name |-> b.name,
                              description |-> b.description]),
                          Update(t, ColumnId(s), b), n)

SqlDeleteItem(t, n, up, s) ==
    IF ~up THEN Outcome(ServerError, t, n)
    ELSE LET affectedRows == Cardinality(DOMAIN t \cap {ColumnId(s)})
         IN  IF affectedRows = 0 THEN Outcome(NotFound, t, n)
             ELSE Outcome(Response(204, "empty", NoBody),
                          Remove(t, ColumnId(s)), n)

----------------------------------------------------------------------------
(* Route handlers of the hosted-client build (src/src/server.js).          *)
(* A supabase-js query resolves to {data, error} and never rejects.        *)
(* data is modelled as a set of rows; the empty set stands for null.       *)

QueryFailed == [error |-> TRUE, data |-> {}]
QueryData(d) == [error |-> FALSE, data |-> d]

\* .single(): exactly one row is data, any other count is an error
Single(matched) ==
    IF Cardinality(matched) = 1 THEN QueryData(matched) ELSE QueryFailed

HostedStatus(t, n, up) ==
    LET q == IF up THEN QueryData({}) ELSE QueryFailed
    IN  IF q.error THEN Outcome(StatusDown, t, n) ELSE Outcome(StatusOk, t, n)

HostedListItems(t, n, up) ==
    LET q == IF up THEN QueryData({ t[i] : i \in DOMAIN t }) ELSE QueryFailed
    IN  IF q.error THEN Outcome(ServerError, t, n)
        ELSE Outcome(Response(200, "list", q.data), t, n)

HostedCreateItem(t, n, up, b) ==
    LET q == IF up THEN Single({ NewRow(n, b) }) ELSE QueryFailed
    IN  IF q.error THEN Outcome(ServerError, t, n)
        ELSE Outcome(Response(201, "item", CHOOSE r \in q.data : TRUE),
                     Insert(t, n, b), n + 1)

HostedGetItem(t, n, up, s) ==
    LET q == IF up THEN Single({ t[i] : i \in DOMAIN t \cap {ColumnId(s)} })
             ELSE QueryFailed
    IN  IF q.error THEN Outcome(ServerError, t, n)
        ELSE IF q.data = {} THEN Outcome(NotFound, t, n)
        ELSE Outcome(Response(200, "item", CHOOSE r \in q.data : TRUE), t, n)

HostedUpdateItem(t, n, up, s, b) ==
    LET hit == DOMAIN t \cap {ColumnId(s)}
        after == IF up /\ hit # {} THEN Update(t, ColumnId(s), b) ELSE t
        q == IF up THEN Single({ after[i] : i \in hit }) ELSE QueryFailed
    IN  IF q.error THEN Outcome(ServerError, after, n)
        ELSE IF q.data = {} THEN Outcome(NotFound, after, n)
        ELSE Outcome(Response(200, "item", CHOOSE r \in q.data : TRUE),
                     after, n)

HostedDeleteItem(t, n, up, s) ==
    LET hit == DOMAIN t \cap {ColumnId(s)}
        q == IF up THEN QueryData({}) ELSE QueryFailed
    IN  IF q.error THEN Outcome(ServerError, t, n)
        ELSE Outcome(Response(204, "empty", NoBody),
                     IF hit # {} THEN Remove(t, ColumnId(s)) ELSE t, n)

----------------------------------------------------------------------------
(* Dispatch: the build decides which handler serves a request *)

NoRequest == [op |-> "none", id |-> "", body |-> NoBody]
NoResponse == Response(0, "none", NoBody)
Request(op, id, body) == [op |-> op, id |-> id, body |-> body]

Handle(v, t, n, up, r) ==
    CASE r.op = "status" ->
           IF v = "sql" THEN SqlStatus(t, n, up) ELSE HostedStatus(t, n, up)
      [] r.op = "list" ->
           IF v = "sql" THEN SqlListItems(t, n, up)
           ELSE HostedListItems(t, n, up)
      [] r.op = "create" ->
           IF v = "sql" THEN SqlCreateItem(t, n, up, r.body)
           ELSE HostedCreateItem(t, n, up, r.body)
      [] r.op = "get" ->
           IF v = "sql" THEN SqlGetItem(t, n, up, r.id)
           ELSE HostedGetItem(t, n, up, r.id)
      [] r.op = "update" ->
           IF v = "sql" THEN SqlUpdateItem(t, n, up, r.id, r.body)
           ELSE HostedUpdateItem(t, n, up, r.id, r.body)
      [] r.op = "delete" ->
           IF v = "sql" THEN SqlDeleteItem(t, n, up, r.id)
           ELSE HostedDeleteItem(t, n, up, r.id)

----------------------------------------------------------------------------
(* Health monitor *)

NoBanner == [banner |-> "none", attempt |-> 0, fatal |-> FALSE]
Established == [banner |-> "established", attempt |-> 0, fatal |-> FALSE]
Failed(k, fatal) == [banner |-> "failed", attempt |-> k, fatal |-> fatal]

\* faulty variant: the exit test is > instead of >=
CheckConnectionLateExit(ok, c, a) ==
    IF ok
    THEN IF ~c
         THEN [isConnected |-> TRUE, connectionAttempts |-> 0,
               emitted |-> Established, exit |-> FALSE]
         ELSE [isConnected |-> c, connectionAttempts |-> a,
               emitted |-> NoBanner, exit |-> FALSE]
    ELSE [isConnected |-> FALSE, connectionAttempts |-> a + 1,
          emitted |-> Failed(a + 1, a + 1 > MAX_RETRY_ATTEMPTS),
          exit |-> a + 1 > MAX_RETRY_ATTEMPTS]

\* faulty variant: reconnecting sets isConnected but forgets connectionAttempts = 0
CheckConnectionNoReset(ok, c, a) ==
    IF ok
    THEN IF ~c
         THEN [isConnected |-> TRUE, connectionAttempts |-> a,
               emitted |-> Established, exit |-> FALSE]
         ELSE [isConnected |-> c, connectionAttempts |-> a,
               emitted |-> NoBanner, exit |-> FALSE]
    ELSE [isConnected |-> FALSE, connectionAttempts |-> a + 1,
          emitted |-> Failed(a + 1, a + 1 >= MAX_RETRY_ATTEMPTS),
          exit |-> a + 1 >= MAX_RETRY_ATTEMPTS]

\* faulty variant: a failure does not clear isConnected
CheckConnectionStaysConnected(ok, c, a) ==
    IF ok
    THEN IF ~c
         THEN [isConnected |-> TRUE, connectionAttempts |-> 0,
               emitted |-> Established, exit |-> FALSE]
         ELSE [isConnected |-> c, connectionAttempts |-> a,
               emitted |-> NoBanner, exit |-> FALSE]
    ELSE [isConnected |-> c, connectionAttempts |-> a + 1,
          emitted |-> Failed(a + 1, a + 1 >= MAX_RETRY_ATTEMPTS),
          exit |-> a + 1 >= MAX_RETRY_ATTEMPTS]

\* faulty variant: the counter is cleared on every success, the banner and the
\* exit are unchanged, but a failure while connected is not counted
CheckConnectionSkipsFirstFailure(ok, c, a) ==
    IF ok
    THEN IF ~c
         THEN [isConnected |-> TRUE, connectionAttempts |-> 0,
               emitted |-> Established, exit |-> FALSE]
         ELSE [isConnected |-> c, connectionAttempts |-> a,
               emitted |-> NoBanner, exit |-> FALSE]
    ELSE IF c
         THEN [isConnected |-> FALSE, connectionAttempts |-> a,
               emitted |-> Failed(a, FALSE), exit |-> FALSE]
         ELSE [isConnected |-> FALSE, connectionAttempts |-> a + 1,
               emitted |-> Failed(a + 1, a + 1 >= MAX_RETRY_ATTEMPTS),
               exit |-> a + 1 >= MAX_RETRY_ATTEMPTS]

\* checkConnection from the point where its query settles; ok says whether
\* the query succeeded, c and a are isConnected and connectionAttempts
CheckConnection(ok, c, a) ==
    IF ok
    THEN IF ~c
         THEN [isConnected |-> TRUE, connectionAttempts |-> 0,
               emitted |-> Established, exit |-> FALSE]
         ELSE [isConnected |-> c, connectionAttempts |-> a,
               emitted |-> NoBanner, exit |-> FALSE]
    ELSE [isConnected |-> FALSE, connectionAttempts |-> a + 1,
          emitted |-> Failed(a + 1, a + 1 >= MAX_RETRY_ATTEMPTS),
          exit |-> a + 1 >= MAX_RETRY_ATTEMPTS]

Settle(ok) ==
    LET m == CheckConnection(ok, isConnected, connectionAttempts)
    IN  /\ inflight > 0
        /\ inflight' = inflight - 1
        /\ isConnected' = m.isConnected
        /\ connectionAttempts' = m.connectionAttempts
        /\ emitted' = m.emitted
        /\ pc' = IF m.exit THEN "exited" ELSE pc
        /\ exitCode' = IF m.exit THEN 1 ELSE exitCode
        /\ settled' = IF ok THEN "success" ELSE "failure"
        /\ lastProbe' = IF ok THEN "success" ELSE "failure"
        /\ failuresSince' = IF ok THEN 0 ELSE failuresSince + 1
        /\ req' = NoRequest
        /\ res' = NoResponse
        /\ UNCHANGED <<variant, dbUp, tableVars>>

\* setInterval(checkConnection, 100000): another probe starts
TimerFires ==
    /\ pc = "running"
    /\ inflight < MaxInFlight
    /\ inflight' = inflight + 1
    /\ emitted' = NoBanner
    /\ settled' = "none"
    /\ req' = NoRequest
    /\ res' = NoResponse
    /\ UNCHANGED <<variant, dbUp, tableVars, isConnected, connectionAttempts,
                   pc, exitCode, lastProbe, failuresSince>>

ProbeSucceeds ==
    /\ pc = "running"
    /\ dbUp
    /\ Settle(TRUE)

ProbeFails ==
    /\ pc = "running"
    /\ ~dbUp
    /\ Settle(FALSE)

----------------------------------------------------------------------------
(* Environment: the database becomes unreachable, or reachable again *)

DbFails ==
    /\ pc = "running"
    /\ dbUp
    /\ dbUp' = FALSE
    /\ emitted' = NoBanner
    /\ settled' = "none"
    /\ req' = NoRequest
    /\ res' = NoResponse
    /\ UNCHANGED <<variant, tableVars, monitorVars>>

DbRecovers ==
    /\ pc = "running"
    /\ ~dbUp
    /\ dbUp' = TRUE
    /\ emitted' = NoBanner
    /\ settled' = "none"
    /\ req' = NoRequest
    /\ res' = NoResponse
    /\ UNCHANGED <<variant, tableVars, monitorVars>>

----------------------------------------------------------------------------
(* HTTP requests *)

\* faulty variant: a handler's catch counts its failure as a failed probe
ServeCountingFailures(r) ==
    LET o == Handle(variant, rows, nextId, dbUp, r)
        hit == IF r.op \in {"get", "update", "delete"}
               THEN DOMAIN rows \cap {ColumnId(r.id)} ELSE {}
        made == IF r.op = "create" /\ o.res.status = 201
                THEN {o.res.body.id} ELSE {}
        gone == IF r.op = "delete" /\ o.res.status = 204 THEN hit ELSE {}
        failed == o.res.status = 500 /\ connectionAttempts < 4
    IN  /\ req' = r
        /\ res' = o.res
        /\ rows' = o.rows
        /\ nextId' = o.nextId
        /\ posted' = [i \in (DOMAIN posted \cup made) \ gone |->
                        IF i \in made THEN r.body ELSE posted[i]]
        /\ deleted' = deleted \cup gone
        /\ emitted' = NoBanner
        /\ settled' = "none"
        /\ connectionAttempts' =
              IF failed THEN connectionAttempts + 1 ELSE connectionAttempts
        /\ isConnected' = IF failed THEN FALSE ELSE isConnected
        /\ UNCHANGED <<variant, dbUp, inflight, pc, exitCode, lastProbe,
                       failuresSince>>

Serve(r) ==
    LET o == Handle(variant, rows, nextId, dbUp, r)
        hit == IF r.op \in {"get", "update", "delete"}
               THEN DOMAIN rows \cap {ColumnId(r.id)} ELSE {}
        made == IF r.op = "create" /\ o.res.status = 201
                THEN {o.res.body.id} ELSE {}
        gone == IF r.op = "delete" /\ o.res.status = 204 THEN hit ELSE {}
    IN  /\ req' = r
        /\ res' = o.res
        /\ rows' = o.rows
        /\ nextId' = o.nextId
        /\ posted' = [i \in (DOMAIN posted \cup made) \ gone |->
                        IF i \in made THEN r.body ELSE posted[i]]
        /\ deleted' = deleted \cup gone
        /\ emitted' = NoBanner
        /\ settled' = "none"
        /\ UNCHANGED <<variant, dbUp, monitorVars>>

GetStatus ==
    /\ pc = "running"
    /\ Serve(Request("status", "", NoBody))

ListItems ==
    /\ pc = "running"
    /\ Serve(Request("list", "", NoBody))

CreateItem ==
    /\ pc = "running"
    /\ nextId <= MaxId
    /\ \E b \in CreateBodies : Serve(Request("create", "", b))

GetItem ==
    /\ pc = "running"
    /\ \E s \in PathIds : Serve(Request("get", s, NoBody))

UpdateItem ==
    /\ pc = "running"
    /\ \E s \in PathIds, b \in UpdateBodies : Serve(Request("update", s, b))

DeleteItem ==
    /\ pc = "running"
    /\ \E s \in PathIds : Serve(Request("delete", s, NoBody))

----------------------------------------------------------------------------
(* The process after its top-level code ran: table contents are whatever   *)
(* earlier runs left (here: empty), the eager checkConnection() call is    *)
(* suspended at its await, the interval timer is armed.                    *)

Init ==
    /\ variant \in Variants
    /\ dbUp \in BOOLEAN
    /\ rows = << >>
    /\ nextId = 1
    /\ isConnected = FALSE
    /\ connectionAttempts = 0
    /\ inflight = 1
    /\ pc = "running"
    /\ exitCode = 0
    /\ emitted = NoBanner
    /\ settled = "none"
    /\ req = NoRequest
    /\ res = NoResponse
    /\ lastProbe = "none"
    /\ failuresSince = 0
    /\ posted = << >>
    /\ deleted = {}

Next ==
    \/ TimerFires
    \/ ProbeSucceeds
    \/ ProbeFails
    \/ DbFails
    \/ DbRecovers
    \/ GetStatus
    \/ ListItems
    \/ CreateItem
    \/ GetItem
    \/ UpdateItem
    \/ DeleteItem

Spec == Init /\ [][Next]_vars

\* The event loop runs every armed timer and every settled promise.
LiveSpec ==
    /\ Init
    /\ [][Next]_vars
    /\ WF_vars(TimerFires)
    /\ WF_vars(ProbeSucceeds)
    /\ WF_vars(ProbeFails)

----------------------------------------------------------------------------
(* Properties *)

Requests ==
    {Request("status", "", NoBody), Request("list", "", NoBody)}
      \cup { Request("create", "", b) : b \in CreateBodies }
      \cup { Request("get", s, NoBody) : s \in PathIds }
      \cup { Request("update", s, b) : s \in PathIds, b \in UpdateBodies }
      \cup { Request("delete", s, NoBody) : s \in PathIds }

\* the step served a request on a path id, the database call went through
OnId(op) == req'.op = op /\ dbUp
Present == ColumnId(req'.id) \in DOMAIN rows

\* C1: with the database reachable, GET, PUT and DELETE on an id that has
\* no row answer 404 {error: "Item not found"} and leave the table as it
\* was, in the SQL-pool build and in the hosted build alike.
C1_AbsentIdIs404 ==
    [][ (req'.op \in {"get", "update", "delete"} /\ dbUp /\ ~Present)
          => (res' = NotFound /\ rows' = rows /\ nextId' = nextId) ]_vars

\* C2: the fifth probe failure in a row ends the process with exit code 1
\* in the very step that settles it, and if the database stays unreachable
\* from some point on the process does exit.
C2_FiveFailuresExit ==
    /\ [](failuresSince >= 5 => (pc = "exited" /\ exitCode = 1))
    /\ [][ (settled' = "failure" /\ failuresSince' = 5)
             => (pc = "running" /\ pc' = "exited" /\ exitCode' = 1) ]_vars
    /\ (<>[](~dbUp)) => <>(pc = "exited")

C2_Witness ==
    pc = "exited" /\ exitCode = 1 /\ settled = "failure" /\ failuresSince = 5

\* C3: right after a probe success connectionAttempts is 0, and in every
\* state connectionAttempts is the number of probe failures since the last
\* probe success, however started probes overlap.
C3_CounterIsFailuresSinceSuccess ==
    /\ (settled = "success" => connectionAttempts = 0)
    /\ connectionAttempts = failuresSince

C3_Witness ==
    settled = "success" /\ emitted = Established /\ inflight > 0
      /\ connectionAttempts = 0

\* C4: on every table the program can hold, every request gets the same
\* status and body from the SQL-pool handlers and from the hosted handlers,
\* and both leave the same table.
C4_BuildsAgree ==
    \A r \in Requests :
       (r.op = "create" => nextId <= MaxId) =>
          LET a == Handle("sql", rows, nextId, dbUp, r)
              b == Handle("hosted", rows, nextId, dbUp, r)
          IN  /\ a.res.status = b.res.status
              /\ a.res.shape = b.res.shape
              /\ a.res.body = b.res.body
              /\ a.rows = b.rows
              /\ a.nextId = b.nextId

C6_DeleteThenGet404 ==
    /\ [][ (OnId("delete") /\ Present)
             => /\ res' = Response(204, "empty", NoBody)
                /\ DOMAIN rows' = DOMAIN rows \ {ColumnId(req'.id)}
                /\ \A j \in DOMAIN rows' : rows'[j] = rows[j] ]_vars
    /\ []((req.op = "get" /\ dbUp /\ ColumnId(req.id) \in deleted)
             => res.status = 404)

\* C7: POST answers 201 with an id no row had and the five fields as sent;
\* while the row is not deleted, GET of that id answers 200 with those
\* five field values.
C7_CreateThenGet ==
    /\ [][ OnId("create")
             => /\ res'.status = 201
                /\ res'.body.id \notin DOMAIN rows
                /\ res'.body.id \in DOMAIN rows'
                /\ FiveFields(res'.body) = req'.body ]_vars
    /\ []((req.op = "get" /\ dbUp /\ ColumnId(req.id) \in DOMAIN posted)
             => /\ res.status = 200
                /\ res.body.id = ColumnId(req.id)
                /\ FiveFields(res.body) = posted[ColumnId(req.id)])

C7_Witness ==
    /\ req.op = "get" /\ res.status = 200
    /\ ColumnId(req.id) \in DOMAIN posted
    /\ res.body.name # Null
    /\ Cardinality(DOMAIN rows) = 2

\* C8: a step that serves a request, whatever its outcome, leaves
\* isConnected, connectionAttempts and the process alive as they were; a
\* step that starts or settles a probe leaves the table as it was.
C8_MonitorAndRoutesDisjoint ==
    [][ /\ req'.op # "none" =>
             UNCHANGED <<isConnected, connectionAttempts, pc, exitCode,
                         failuresSince>>
        /\ (settled' # "none" \/ inflight' # inflight) =>
             UNCHANGED <<rows, nextId>> ]_vars

C8_Witness ==
    /\ req.op = "status" /\ res.status = 500
    /\ connectionAttempts = 4 /\ pc = "running"

\* C9: the monitor starts disconnected; while the process runs isConnected
\* is the outcome of the last settled probe; every failure prints the
\* failure banner with the attempt count, every change from disconnected to
\* connected prints the established banner, and a success while connected
\* changes nothing and prints nothing.
C9_Transitions ==
    /\ [](lastProbe = "none" => ~isConnected)
    /\ [](lastProbe # "none" => (isConnected <=> lastProbe = "success"))
    /\ [](settled = "failure" =>
             (emitted.banner = "failed"
                /\ emitted.attempt = connectionAttempts))
    /\ [][ /\ (~isConnected /\ isConnected') =>
                (settled' = "success" /\ emitted' = Established)
           /\ (isConnected /\ ~isConnected') => settled' = "failure"
           /\ (isConnected /\ settled' = "success") =>
                (emitted' = NoBanner
                   /\ UNCHANGED <<isConnected, connectionAttempts>>)
           /\ emitted'.banner = "established" =>
                (~isConnected /\ isConnected') ]_vars

C9_Witness ==
    /\ settled = "success" /\ emitted = NoBanner /\ isConnected
    /\ inflight > 0

\* C10: while the process runs, 0 <= connectionAttempts <= 4 and
\* isConnected implies connectionAttempts = 0; a probe failure adds exactly
\* one; the process is exited only with connectionAttempts = 5.
C10_MonitorInvariant ==
    /\ [](pc = "running" =>
            /\ connectionAttempts >= 0
            /\ connectionAttempts <= 4
            /\ isConnected => connectionAttempts = 0)
    /\ [](pc = "exited" => connectionAttempts = 5)
    /\ [][ settled' = "failure" =>
             connectionAttempts' = connectionAttempts + 1 ]_vars

C10_Witness ==
    /\ pc = "running" /\ connectionAttempts = 4
    /\ req.op # "none" /\ inflight = MaxInFlight

====
